---------------------------- MODULE Spec2Model ----------------------------
(***************************************************************************)
(* Airport pickup backend (rahimshakurjamal/airport-backend).              *)
(*                                                                         *)
(* The repository holds five implementations of the same service:          *)
(*   part_000  src/unnamed/part_000      guests + flight_legs, pooled tx    *)
(*   part_001  src/unnamed/part_001      as part_000, plus cars, no PUT     *)
(*   part_002  src/unnamed/part_002      flat guests, listing refreshes     *)
(*   server1   src/server.js:1-197       flat guests, listing refreshes     *)
(*   server2   src/server.js:199-640     flat guests, cars with an array    *)
(* The variable impl says which of them is running.                        *)
(***************************************************************************)
EXTENDS Integers, Sequences, FiniteSets, TLC

\* ----------------------------------------------------------------- bounds
MaxNow == 2
MaxGuests == 1
MaxFlatGuests == 1
MaxLegs == 2
MaxLegId == 3

\* -------------------------------------------------------------- vocabulary
OnTime == "On Time"
Delayed == "Delayed"
Cancelled == "Cancelled"
Landed == "Landed"
Statuses == {OnTime, Delayed, Cancelled, Landed}
Terminal == {Landed, Cancelled}

\* what fetchFlightStatus returns for "no status": JavaScript null
Unavailable == "null"

\* SQL NULL / JavaScript undefined in a text column or field
NULL == "NULL"

\* flight_status values the provider may send; "LANDED" stands for an
\* answer that differs from the documented vocabulary only by case
VendorStatuses ==
  {"cancelled", "canceled", "landed", "LANDED", "active", "scheduled",
   "delayed", "en-route", "diverted", NULL}

\* departure.delay: absent ({}), or a number of minutes
Delays == {{}, {0}, {15}}

\* arrival: absent, or estimated compared with scheduled
Arrivals == {"none", "ontime", "late"}

\* One provider call: it rejects (network error or HTTP error), it never
\* answers (timeout), it answers with an empty data array, or with a flight.
DataResponses ==
  [kind : {"data"}, flight_status : VendorStatuses, delay : Delays,
   arrival : Arrivals]

FailedResponses == [kind : {"network", "timeout", "empty"}]

Responses == DataResponses \cup FailedResponses

\* Without an access key the provider refuses the request (or is not reached).
ProviderAnswers(key) ==
  IF key THEN Responses ELSE [kind : {"network", "timeout"}]

ToLowerCase(s) == IF s = "LANDED" THEN "landed" ELSE s

\* flight.departure?.delay > 0
DelayPositive(d) == \E m \in d : m > 0

\* ------------------------------------------------------ the status resolvers

\* part_000:77-87, part_001:94-104: the vendor status of data[0] to a status
MapVendorStatus(flight) ==
  IF flight.flight_status = "cancelled" THEN Cancelled
  ELSE IF flight.flight_status = "landed" THEN Landed
  ELSE IF flight.flight_status = "active" THEN OnTime
  ELSE IF flight.flight_status = "scheduled" /\ DelayPositive(flight.delay)
       THEN Delayed
  ELSE OnTime

\* part_000:67-93 (no key check, no timeout: a provider that never answers
\* is never returned from, so "timeout" is not an input that yields a value)
fetchFlightStatus000(resp) ==
  IF resp.kind = "data" THEN MapVendorStatus(resp) ELSE Unavailable

\* part_001:78-110 (key check first, timeout: 10000 turns silence into a catch)
fetchFlightStatus001(key, resp) ==
  IF ~key THEN Unavailable
  ELSE IF resp.kind = "data" THEN MapVendorStatus(resp)
  ELSE Unavailable

\* server.js:602-619: the mapping of GET /api/flight-status
MapAviationStatus(flightData) ==
  IF flightData.flight_status = NULL THEN OnTime
  ELSE LET aviationStatus == ToLowerCase(flightData.flight_status) IN
       IF aviationStatus = "landed" THEN Landed
       ELSE IF aviationStatus \in {"cancelled", "canceled"} THEN Cancelled
       ELSE IF aviationStatus = "delayed" THEN Delayed
       ELSE OnTime

\* server.js:584-631: what GET /api/flight-status answers once its
\* parameters are present: always a status
FlightStatusBody(key, resp) ==
  IF ~key THEN OnTime
  ELSE IF resp.kind = "data" THEN MapAviationStatus(resp)
  ELSE OnTime

VARIABLES
  impl,           \* which implementation is running
  apiKey,         \* process.env.AVIATIONSTACK_API_KEY is set
  now,            \* the clock (new Date())
  guests,         \* table guests: id -> row
  flight_legs,    \* table flight_legs: id -> row
  cars,           \* table cars: id -> row
  car_passengers, \* table car_passengers: set of <<car_id, guest_id>>
  serial,         \* the SERIAL sequences
  req,            \* one slot per handler: its position and locals
  checkedOut,     \* clients checked out of the pool
  lookup,         \* the last call of a status resolver and what it gave
  legSets         \* per guest, the leg-id sets that were ever committed

dbVars == <<guests, flight_legs, cars, car_passengers, serial>>
envVars == <<impl, apiKey>>
vars == <<impl, apiKey, now, guests, flight_legs, cars, car_passengers,
          serial, req, checkedOut, lookup, legSets>>

NoLookup == [by |-> "none"]

\* the handlers that can be in flight, one request each
Slots == {"list", "post", "put", "del", "assign", "pass1", "pass2",
          "postCars", "delCars", "putCar", "delCar"}
Idle == [pc |-> "idle"]
Free(s) == req[s].pc \in {"idle", "done"}

\* ------------------------------------------------------------------ resolver
\* The store and the handlers are idle in this specification.
InitStore ==
  /\ now = 0
  /\ guests = <<>>
  /\ flight_legs = <<>>
  /\ cars = <<>>
  /\ car_passengers = {}
  /\ serial = [guests |-> 1, flight_legs |-> 1]
  /\ req = [s \in Slots |-> Idle]
  /\ checkedOut = 0
  /\ lookup = NoLookup
  /\ legSets = <<>>

InitResolver ==
  /\ impl \in {"part_000", "part_001", "server2"}
  /\ apiKey \in BOOLEAN
  /\ InitStore

\* part_000:67-93
CallFetch000 ==
  /\ impl = "part_000"
  /\ \E resp \in ProviderAnswers(apiKey) :
       /\ resp.kind # "timeout"
       /\ lookup' = [by |-> "fetchFlightStatus", resp |-> resp,
                     result |-> fetchFlightStatus000(resp), code |-> 0]
  /\ UNCHANGED <<envVars, now, dbVars, req, checkedOut, legSets>>

\* part_001:78-110
CallFetch001 ==
  /\ impl = "part_001"
  /\ \E resp \in ProviderAnswers(apiKey) :
       lookup' = [by |-> "fetchFlightStatus", resp |-> resp,
                  result |-> fetchFlightStatus001(apiKey, resp), code |-> 0]
  /\ UNCHANGED <<envVars, now, dbVars, req, checkedOut, legSets>>

\* server.js:577-632
GetFlightStatus ==
  /\ impl = "server2"
  /\ \E flight \in BOOLEAN, airline \in BOOLEAN,
        resp \in ProviderAnswers(apiKey) :
       lookup' =
         IF ~flight \/ ~airline
         THEN [by |-> "GET /api/flight-status", resp |-> [kind |-> "none"],
               result |-> "error", code |-> 400]
         ELSE [by |-> "GET /api/flight-status", resp |-> resp,
               result |-> FlightStatusBody(apiKey, resp), code |-> 200]
  /\ UNCHANGED <<envVars, now, dbVars, req, checkedOut, legSets>>

NextResolver == CallFetch000 \/ CallFetch001 \/ GetFlightStatus

SpecResolver == InitResolver /\ [][NextResolver]_vars

\* ------------------------------------------------------------- flat guests
\* part_002 and server1 keep one row per guest, the flight on the row, and
\* talk to the store through pool.query: every statement commits by itself.

Names == {"Ann"}
Flights == {"F1", "F2"}
Airlines == {NULL, "AA"}
Origins == {"JFK"}
Etas == {1, 2}
NoCar == 0


Perms(S) ==
  {p \in [1..Cardinality(S) -> S] :
     \A i, j \in 1..Cardinality(S) : i # j => p[i] # p[j]}

\* part_002:44, server.js:45: SELECT * FROM guests ORDER BY eta ASC
\* (rows with equal eta come in any order)
SelectGuestsByEta ==
  {[i \in DOMAIN p |-> [id |-> p[i]] @@ guests[p[i]]] :
     p \in {q \in Perms(DOMAIN guests) :
              \A i, j \in DOMAIN q :
                i < j => guests[q[i]].eta <= guests[q[j]].eta}}

\* part_002:49, server.js:50: guest.flight && guest.airline && guest.origin
HasFlightKey(guest) == guest.airline # NULL /\ guest.origin # NULL

NoWrite == "no write"

\* part_002:60-82: newStatus from the first flight of the answer
NewStatus002(flight, eta, t) ==
  LET mapped ==
        IF flight.flight_status = "cancelled" THEN Cancelled
        ELSE IF flight.flight_status = "landed" THEN Landed
        ELSE IF flight.flight_status \in {"active", "scheduled"}
             THEN IF flight.arrival = "late" THEN Delayed ELSE OnTime
        ELSE OnTime
  IN IF eta < t /\ mapped = OnTime THEN Landed ELSE mapped

\* a fallback that moves a record with a past ETA on by one stage each time
\* it is applied: Delayed to On Time, On Time to Landed
FallbackByStages(guest, t) ==
  IF guest.eta < t /\ guest.status = Delayed THEN OnTime
  ELSE IF guest.eta < t /\ guest.status = OnTime THEN Landed
  ELSE NoWrite

\* part_002:90-96: the catch block's fallback
Fallback002(guest, t) ==
  IF guest.eta < t /\ guest.status = OnTime THEN Landed ELSE NoWrite

\* part_002:50-97: the status the listing writes for one guest, or NoWrite.
\* flight.arrival.estimated throws when the answer has no arrival object.
Refresh002(resp, guest, t) ==
  IF resp.kind = "data"
  THEN IF resp.flight_status \in {"active", "scheduled"}
          /\ resp.arrival = "none"
       THEN Fallback002(guest, t)
       ELSE NewStatus002(resp, guest.eta, t)
  ELSE IF resp.kind = "empty" THEN NoWrite
  ELSE Fallback002(guest, t)

\* server.js:63-77: statusMap[apiStatus], 'On Time' when unknown
StatusMap(flight) ==
  LET apiStatus == ToLowerCase(flight.flight_status) IN
  IF apiStatus = "cancelled" THEN Cancelled
  ELSE IF apiStatus = "landed" THEN Landed
  ELSE IF apiStatus = "delayed" THEN Delayed
  ELSE OnTime

\* server.js:51-86: the status the listing writes for one guest, or NoWrite
Refresh1(resp) ==
  IF resp.kind = "data" THEN StatusMap(resp) ELSE NoWrite

InitFlat ==
  /\ impl \in {"part_002", "server1"}
  /\ apiKey \in BOOLEAN
  /\ InitStore

\* part_002:108-119, server.js:97-109: POST /api/guests
FlatPostGuest ==
  /\ impl \in {"part_002", "server1"}
  /\ serial.guests <= MaxFlatGuests
  /\ \E name \in Names, flight \in Flights, airline \in Airlines,
        origin \in Origins, eta \in Etas :
       /\ guests' = guests @@
            (serial.guests :>
               [name |-> name, flight |-> flight, airline |-> airline,
                origin |-> origin, eta |-> eta, status |-> OnTime,
                car_assigned |-> NoCar])
       /\ req' = [req EXCEPT !["post"] =
                    [pc |-> "done", res |-> [code |-> 200, body |-> "row"]]]
  /\ serial' = [serial EXCEPT !.guests = @ + 1]
  /\ UNCHANGED <<envVars, now, flight_legs, cars, car_passengers,
                 checkedOut, lookup, legSets>>

\* part_002:122-134, server.js:112-125: PUT /api/guests/:id
\* (res.json(result.rows[0]): an empty 200 when no row matched)
FlatPutGuest ==
  /\ impl \in {"part_002", "server1"}
  /\ \E id \in 1..MaxFlatGuests, name \in Names, flight \in Flights,
        airline \in Airlines, origin \in Origins, eta \in Etas,
        status \in Statuses, car_assigned \in {NoCar} :
       /\ guests' =
            IF id \in DOMAIN guests
            THEN [guests EXCEPT ![id] =
                    [name |-> name, flight |-> flight, airline |-> airline,
                     origin |-> origin, eta |-> eta, status |-> status,
                     car_assigned |-> car_assigned]]
            ELSE guests
       /\ req' = [req EXCEPT !["put"] =
                    [pc |-> "done",
                     res |-> [code |-> 200,
                              body |-> IF id \in DOMAIN guests
                                       THEN "row" ELSE "empty"]]]
  /\ UNCHANGED <<envVars, now, flight_legs, cars, car_passengers, serial,
                 checkedOut, lookup, legSets>>

\* part_002:137-145, server.js:128-137: DELETE /api/guests/:id
FlatDeleteGuest ==
  /\ impl \in {"part_002", "server1"}
  /\ \E id \in 1..MaxFlatGuests :
       /\ guests' = [g \in DOMAIN guests \ {id} |-> guests[g]]
       /\ req' = [req EXCEPT !["del"] =
                    [pc |-> "done",
                     res |-> [code |-> 200, body |-> "Guest deleted"]]]
  /\ UNCHANGED <<envVars, now, flight_legs, cars, car_passengers, serial,
                 checkedOut, lookup, legSets>>

\* part_002:44-45, server.js:45-46: the listing reads every guest
FlatListSelect ==
  /\ impl \in {"part_002", "server1"}
  /\ Free("list")
  /\ \E rows \in SelectGuestsByEta :
       req' = [req EXCEPT !["list"] =
                 [pc |-> "loop", guests |-> rows, i |-> 1,
                  answer |-> "none", newStatus |-> NoWrite]]
  /\ UNCHANGED <<envVars, now, dbVars, checkedOut, lookup, legSets>>

\* part_002:48-83,87-93, server.js:49-78,82-85: the provider's answer for
\* guest i arrives (axios has no timeout here: silence is waited for)
FlatListFetch ==
  /\ impl \in {"part_002", "server1"}
  /\ req["list"].pc = "loop"
  /\ req["list"].i <= Len(req["list"].guests)
  /\ LET guest == req["list"].guests[req["list"].i] IN
     IF ~HasFlightKey(guest)
     THEN req' = [req EXCEPT !["list"].i = @ + 1, !["list"].answer = "none"]
     ELSE \E resp \in ProviderAnswers(apiKey) :
            /\ resp.kind # "timeout"
            /\ LET newStatus == IF impl = "part_002"
                                THEN Refresh002(resp, guest, now)
                                ELSE Refresh1(resp)
               IN req' =
                    IF newStatus = NoWrite
                    THEN [req EXCEPT !["list"].i = @ + 1,
                                     !["list"].answer = resp.kind]
                    ELSE [req EXCEPT !["list"].pc = "writeStatus",
                                     !["list"].answer = resp.kind,
                                     !["list"].newStatus = newStatus]
  /\ UNCHANGED <<envVars, now, dbVars, checkedOut, lookup, legSets>>

\* part_002:84-85,94-95, server.js:79-80: UPDATE guests SET status = $1
\* WHERE id = $2, then guest.status = newStatus on the row in hand
FlatListUpdate ==
  /\ impl \in {"part_002", "server1"}
  /\ req["list"].pc = "writeStatus"
  /\ LET i == req["list"].i
         id == req["list"].guests[i].id
         newStatus == req["list"].newStatus
     IN /\ guests' = IF id \in DOMAIN guests
                      THEN [guests EXCEPT ![id].status = newStatus]
                      ELSE guests
        /\ req' = [req EXCEPT !["list"].pc = "loop",
                              !["list"].i = i + 1,
                              !["list"].guests[i].status = newStatus,
                              !["list"].newStatus = NoWrite]
  /\ UNCHANGED <<envVars, now, flight_legs, cars, car_passengers, serial,
                 checkedOut, lookup, legSets>>

\* part_002:101, server.js:89: res.json(guests)
FlatListRespond ==
  /\ impl \in {"part_002", "server1"}
  /\ req["list"].pc = "loop"
  /\ req["list"].i > Len(req["list"].guests)
  /\ req' = [req EXCEPT !["list"] =
               [pc |-> "done",
                res |-> [code |-> 200, body |-> req["list"].guests]]]
  /\ UNCHANGED <<envVars, now, dbVars, checkedOut, lookup, legSets>>

\* the clock
Tick ==
  /\ now < MaxNow
  /\ now' = now + 1
  /\ UNCHANGED <<envVars, dbVars, req, checkedOut, lookup, legSets>>

NextFlat ==
  \/ FlatPostGuest
  \/ FlatPutGuest
  \/ FlatDeleteGuest
  \/ FlatListSelect
  \/ FlatListFetch
  \/ FlatListUpdate
  \/ FlatListRespond
  \/ Tick

SpecFlat == InitFlat /\ [][NextFlat]_vars

\* ------------------------------------------------------ guests with legs
\* part_000 and part_001 keep guests and flight_legs apart. Handlers check a
\* client out of the pool; POST and PUT run BEGIN ... COMMIT on it. The store
\* is PostgreSQL at READ COMMITTED: a statement sees what is committed when it
\* starts plus its own transaction's writes; a transaction's writes appear to
\* others at COMMIT, all at once; a row written by an open transaction blocks
\* other writers of that row until the transaction ends.

PostNames == {"Ann"}
PutNames == {"Bob"}

\* the legs a request body may carry (flight, destination, eta, status?)
LegInputs ==
  {[flight |-> "F1", destination |-> "A", eta |-> 1, status |-> NULL],
   [flight |-> "F2", destination |-> "B", eta |-> 2, status |-> Landed]}

LegLists == UNION {[1..n -> LegInputs] : n \in 0..MaxLegs}

\* part_000:171-172,205-206: the row one INSERT INTO flight_legs writes
LegRow(guestId, leg, i) ==
  [guest_id |-> guestId, flight_number |-> leg.flight,
   destination |-> leg.destination, eta |-> leg.eta,
   status |-> IF leg.status = NULL THEN OnTime ELSE leg.status,
   leg_order |-> i - 1]

\* the rows a transaction has inserted so far, by id
InsertedLegs(r) ==
  [l \in {r.ids[k] : k \in DOMAIN r.ids} |->
     LET k == CHOOSE k \in DOMAIN r.ids : r.ids[k] = l
     IN LegRow(r.guestId, r.legs[k], k)]

LegsOf(guestId) == {l \in DOMAIN flight_legs : flight_legs[l].guest_id = guestId}

InTx(s) == req[s].pc \in {"insertGuest", "updateGuest", "deleteLegs",
                          "insertLeg", "commit"}

\* a transaction that has not ended holds guest row id: PUT updated the row
\* or one of its leg inserts references it, POST /api/cars updated the row
\* or one of its passenger inserts references it (the foreign key's row lock)
GuestRowLocked(id) ==
  \/ /\ req["put"].pc \in {"deleteLegs", "insertLeg", "commit", "rollback"}
     /\ req["put"].guestId = id
     /\ (req["put"].matched \/ req["put"].ids # <<>>)
  \/ /\ req["postCars"].pc \in {"insertCar", "assign", "commit", "rollback"}
     /\ \/ \E cp \in req["postCars"].newPassengers : cp[2] = id
        \/ id \in DOMAIN req["postCars"].assigned

\* part_000:33-59: ON DELETE CASCADE of flight_legs and car_passengers
CascadeLegs(id) ==
  [l \in DOMAIN flight_legs \ LegsOf(id) |-> flight_legs[l]]

CascadePassengers(id) == {cp \in car_passengers : cp[2] # id}

InitLegs ==
  /\ impl \in {"part_000", "part_001"}
  /\ apiKey = TRUE
  /\ InitStore

\* ---- POST /api/guests: part_000:153-184, part_001:181-214

\* part_000:154-160: connect, BEGIN, legs[legs.length - 1].destination
\* (a TypeError when the list is empty: straight to the catch block)
PostBegin ==
  /\ impl \in {"part_000", "part_001"}
  /\ Free("post")
  /\ \E name \in PostNames, legs \in LegLists :
       req' = [req EXCEPT !["post"] =
                 [pc |-> IF legs = <<>> THEN "rollback" ELSE "insertGuest",
                  name |-> name, legs |-> legs, guestId |-> 0, ids |-> <<>>]]
  /\ checkedOut' = checkedOut + 1
  /\ UNCHANGED <<envVars, now, dbVars, lookup, legSets>>

\* part_000:161-166: INSERT INTO guests ... RETURNING id
PostInsertGuest ==
  /\ req["post"].pc = "insertGuest"
  /\ serial.guests <= MaxGuests
  /\ \E ok \in BOOLEAN :
       IF ok
       THEN /\ req' = [req EXCEPT !["post"].pc = "insertLeg",
                                  !["post"].guestId = serial.guests]
            /\ serial' = [serial EXCEPT !.guests = @ + 1]
       ELSE /\ req' = [req EXCEPT !["post"].pc = "rollback"]
            /\ UNCHANGED serial
  /\ UNCHANGED <<envVars, now, guests, flight_legs, cars, car_passengers,
                 checkedOut, lookup, legSets>>

\* part_000:168-174: the i-th INSERT INTO flight_legs
PostInsertLeg ==
  /\ req["post"].pc = "insertLeg"
  /\ serial.flight_legs <= MaxLegId
  /\ \E ok \in BOOLEAN :
       IF ok
       THEN /\ req' = [req EXCEPT
                 !["post"].ids = Append(@, serial.flight_legs),
                 !["post"].pc =
                   IF Len(req["post"].ids) + 1 = Len(req["post"].legs)
                   THEN "commit" ELSE "insertLeg"]
            /\ serial' = [serial EXCEPT !.flight_legs = @ + 1]
       ELSE /\ req' = [req EXCEPT !["post"].pc = "rollback"]
            /\ UNCHANGED serial
  /\ UNCHANGED <<envVars, now, guests, flight_legs, cars, car_passengers,
                 checkedOut, lookup, legSets>>

\* part_000:176-177,181-183: COMMIT, res.json({success, guestId}), release
PostCommit ==
  /\ req["post"].pc = "commit"
  /\ LET r == req["post"]
         finalLeg == r.legs[Len(r.legs)]
     IN \E ok \in BOOLEAN :
          IF ok
          THEN /\ guests' = guests @@
                    (r.guestId :>
                       [name |-> r.name,
                        final_destination |-> finalLeg.destination,
                        final_eta |-> finalLeg.eta, car_assigned |-> NoCar])
               /\ flight_legs' = flight_legs @@ InsertedLegs(r)
               /\ legSets' = legSets @@
                    (r.guestId :> {{r.ids[k] : k \in DOMAIN r.ids}})
               /\ req' = [req EXCEPT !["post"] =
                            [pc |-> "done",
                             res |-> [code |-> 200, body |-> "success"]]]
               /\ checkedOut' = checkedOut - 1
          ELSE /\ req' = [req EXCEPT !["post"].pc = "rollback"]
               /\ UNCHANGED <<guests, flight_legs, legSets, checkedOut>>
  /\ UNCHANGED <<envVars, now, cars, car_passengers, serial, lookup>>

\* as PostRollback, but a ROLLBACK that fails skips the release
PostRollbackKeepsClient ==
  /\ req["post"].pc = "rollback"
  /\ \E ok \in BOOLEAN :
       /\ req' = [req EXCEPT !["post"] =
                    [pc |-> "done",
                     res |-> IF ok THEN [code |-> 500, body |-> "error"]
                             ELSE [code |-> 0, body |-> "no response"]]]
       /\ checkedOut' = IF ok THEN checkedOut - 1 ELSE checkedOut
  /\ UNCHANGED <<envVars, now, dbVars, lookup, legSets>>

\* part_000:178-183: ROLLBACK, res.status(500), release. When ROLLBACK is
\* rejected too (the connection is gone) the catch block throws before it
\* answers; the server drops the transaction with the connection.
PostRollback ==
  /\ req["post"].pc = "rollback"
  /\ \E ok \in BOOLEAN :
       req' = [req EXCEPT !["post"] =
                 [pc |-> "done",
                  res |-> IF ok THEN [code |-> 500, body |-> "error"]
                          ELSE [code |-> 0, body |-> "no response"]]]
  /\ checkedOut' = checkedOut - 1
  /\ UNCHANGED <<envVars, now, dbVars, lookup, legSets>>

\* ---- PUT /api/guests/:id: part_000:186-218

\* part_000:187-194: connect, BEGIN, legs[legs.length - 1]
PutBegin ==
  /\ impl = "part_000"
  /\ Free("put")
  /\ \E id \in 1..MaxGuests, name \in PutNames, legs \in LegLists :
       req' = [req EXCEPT !["put"] =
                 [pc |-> IF legs = <<>> THEN "rollback" ELSE "updateGuest",
                  guestId |-> id, name |-> name, legs |-> legs,
                  matched |-> FALSE, del |-> {}, ids |-> <<>>]]
  /\ checkedOut' = checkedOut + 1
  /\ UNCHANGED <<envVars, now, dbVars, lookup, legSets>>

\* part_000:195-198: UPDATE guests SET name, final_destination, final_eta
PutUpdateGuest ==
  /\ req["put"].pc = "updateGuest"
  /\ \E ok \in BOOLEAN :
       req' = IF ok
              THEN [req EXCEPT !["put"].pc = "deleteLegs",
                               !["put"].matched =
                                  req["put"].guestId \in DOMAIN guests]
              ELSE [req EXCEPT !["put"].pc = "rollback"]
  /\ UNCHANGED <<envVars, now, dbVars, checkedOut, lookup, legSets>>

\* part_000:200: DELETE FROM flight_legs WHERE guest_id = $1
PutDeleteLegs ==
  /\ req["put"].pc = "deleteLegs"
  /\ \E ok \in BOOLEAN :
       req' = IF ok
              THEN [req EXCEPT !["put"].pc = "insertLeg",
                               !["put"].del = LegsOf(req["put"].guestId)]
              ELSE [req EXCEPT !["put"].pc = "rollback"]
  /\ UNCHANGED <<envVars, now, dbVars, checkedOut, lookup, legSets>>

\* part_000:202-208: the i-th INSERT INTO flight_legs; the foreign key
\* guest_id REFERENCES guests(id) needs the guest row to be there
PutInsertLeg ==
  /\ req["put"].pc = "insertLeg"
  /\ serial.flight_legs <= MaxLegId
  /\ \E ok \in BOOLEAN :
       IF ok /\ req["put"].guestId \in DOMAIN guests
       THEN /\ req' = [req EXCEPT
                 !["put"].ids = Append(@, serial.flight_legs),
                 !["put"].pc =
                   IF Len(req["put"].ids) + 1 = Len(req["put"].legs)
                   THEN "commit" ELSE "insertLeg"]
            /\ serial' = [serial EXCEPT !.flight_legs = @ + 1]
       ELSE /\ req' = [req EXCEPT !["put"].pc = "rollback"]
            /\ UNCHANGED serial
  /\ UNCHANGED <<envVars, now, guests, flight_legs, cars, car_passengers,
                 checkedOut, lookup, legSets>>

\* what COMMIT of the PUT transaction makes of the two tables
PutCommitGuests(r) ==
  IF r.matched
  THEN LET finalLeg == r.legs[Len(r.legs)] IN
       [guests EXCEPT ![r.guestId].name = r.name,
                      ![r.guestId].final_destination = finalLeg.destination,
                      ![r.guestId].final_eta = finalLeg.eta]
  ELSE guests

\* a COMMIT that makes the DELETE of the old legs durable without the
\* INSERTs of the new ones
PutCommitLegsWithoutInserts(r) ==
  [l \in DOMAIN flight_legs \ r.del |-> flight_legs[l]]

PutCommitLegs(r) ==
  [l \in DOMAIN flight_legs \ r.del |-> flight_legs[l]] @@ InsertedLegs(r)

\* part_000:210-211,215-217: COMMIT, res.json({success: true}), release
PutCommit ==
  /\ req["put"].pc = "commit"
  /\ LET r == req["put"] IN
     \E ok \in BOOLEAN :
       IF ok
       THEN /\ guests' = PutCommitGuests(r)
            /\ flight_legs' = PutCommitLegs(r)
            /\ legSets' =
                 [g \in DOMAIN legSets \cup {r.guestId} |->
                    (IF g \in DOMAIN legSets THEN legSets[g] ELSE {})
                    \cup (IF g = r.guestId
                          THEN {{r.ids[k] : k \in DOMAIN r.ids}} ELSE {})]
            /\ req' = [req EXCEPT !["put"] =
                         [pc |-> "done", guestId |-> r.guestId,
                          res |-> [code |-> 200, body |-> "success"]]]
            /\ checkedOut' = checkedOut - 1
       ELSE /\ req' = [req EXCEPT !["put"].pc = "rollback"]
            /\ UNCHANGED <<guests, flight_legs, legSets, checkedOut>>
  /\ UNCHANGED <<envVars, now, cars, car_passengers, serial, lookup>>

\* part_000:212-217: ROLLBACK, res.status(500), release (see PostRollback)
PutRollback ==
  /\ req["put"].pc = "rollback"
  /\ LET r == req["put"] IN
     \E ok \in BOOLEAN :
       req' = [req EXCEPT !["put"] =
                 [pc |-> "done", guestId |-> r.guestId,
                  res |-> IF ok THEN [code |-> 500, body |-> "error"]
                          ELSE [code |-> 0, body |-> "no response"]]]
  /\ checkedOut' = checkedOut - 1
  /\ UNCHANGED <<envVars, now, dbVars, lookup, legSets>>

\* ---- DELETE /api/guests/:id: part_000:220-232, part_001:216-230

\* part_000:220-232: connect, DELETE FROM guests WHERE id = $1 (it waits
\* while an open transaction holds the row), {success: true} or 500, release
DeleteGuest ==
  /\ impl \in {"part_000", "part_001"}
  /\ \E id \in 1..MaxGuests, ok \in BOOLEAN :
       /\ ~GuestRowLocked(id)
       /\ guests' = IF ok THEN [g \in DOMAIN guests \ {id} |-> guests[g]]
                    ELSE guests
       /\ flight_legs' = IF ok THEN CascadeLegs(id) ELSE flight_legs
       /\ car_passengers' = IF ok THEN CascadePassengers(id)
                            ELSE car_passengers
       /\ req' = [req EXCEPT !["del"] =
                    [pc |-> "done", guestId |-> id,
                     res |-> IF ok THEN [code |-> 200, body |-> "success"]
                             ELSE [code |-> 500, body |-> "error"]]]
  /\ UNCHANGED <<envVars, now, cars, serial, checkedOut, lookup, legSets>>

\* ---- GET /api/guests: part_000:120-151, part_001:147-179

\* part_000:123: SELECT * FROM guests ORDER BY created_at DESC. created_at
\* is the time the inserting transaction began and ids are handed out in
\* that order, so newest first is highest id first.
SelectGuestsNewestFirst ==
  LET n == Cardinality(DOMAIN guests)
      p == CHOOSE q \in Perms(DOMAIN guests) :
             \A i, j \in 1..n : i < j => q[i] > q[j]
  IN [i \in 1..n |->
        [id |-> p[i], name |-> guests[p[i]].name,
         finalDestination |-> guests[p[i]].final_destination,
         finalETA |-> guests[p[i]].final_eta,
         carAssigned |-> guests[p[i]].car_assigned, legs |-> <<>>]]

\* as SelectLegs, but ORDER BY eta alone
SelectLegsByEta(guestId) ==
  {[i \in DOMAIN p |->
      [row |-> p[i], flight |-> flight_legs[p[i]].flight_number,
       destination |-> flight_legs[p[i]].destination,
       eta |-> flight_legs[p[i]].eta, status |-> flight_legs[p[i]].status]] :
     p \in {q \in Perms(LegsOf(guestId)) :
              \A i, j \in DOMAIN q :
                i < j => flight_legs[q[i]].eta <= flight_legs[q[j]].eta}}

\* part_000:125-128,135-142: SELECT * FROM flight_legs WHERE guest_id = $1
\* ORDER BY leg_order, eta (rows equal in both come in any order); row is
\* the id of the row each entry was read from
SelectLegs(guestId) ==
  {[i \in DOMAIN p |->
      [row |-> p[i], flight |-> flight_legs[p[i]].flight_number,
       destination |-> flight_legs[p[i]].destination,
       eta |-> flight_legs[p[i]].eta, status |-> flight_legs[p[i]].status]] :
     p \in {q \in Perms(LegsOf(guestId)) :
              \A i, j \in DOMAIN q :
                i < j =>
                  \/ flight_legs[q[i]].leg_order < flight_legs[q[j]].leg_order
                  \/ /\ flight_legs[q[i]].leg_order = flight_legs[q[j]].leg_order
                     /\ flight_legs[q[i]].eta <= flight_legs[q[j]].eta}}

\* part_000:121-123: connect, read the guests
ListSelectGuests ==
  /\ impl \in {"part_000", "part_001"}
  /\ Free("list")
  /\ req' = [req EXCEPT !["list"] =
               [pc |-> "legs", guests |-> SelectGuestsNewestFirst, i |-> 1]]
  /\ checkedOut' = checkedOut + 1
  /\ UNCHANGED <<envVars, now, dbVars, lookup, legSets>>

\* part_000:124-144: the leg query of the i-th guest
ListSelectLegs ==
  /\ impl \in {"part_000", "part_001"}
  /\ req["list"].pc = "legs"
  /\ req["list"].i <= Len(req["list"].guests)
  /\ LET i == req["list"].i IN
     \E legs \in SelectLegs(req["list"].guests[i].id) :
       req' = [req EXCEPT !["list"].guests[i].legs = legs,
                          !["list"].i = i + 1]
  /\ UNCHANGED <<envVars, now, dbVars, checkedOut, lookup, legSets>>

\* part_000:145,148-150: res.json(guests), release
ListRespond ==
  /\ impl \in {"part_000", "part_001"}
  /\ req["list"].pc = "legs"
  /\ req["list"].i > Len(req["list"].guests)
  /\ req' = [req EXCEPT !["list"] =
               [pc |-> "done",
                res |-> [code |-> 200, body |-> req["list"].guests]]]
  /\ checkedOut' = checkedOut - 1
  /\ UNCHANGED <<envVars, now, dbVars, lookup, legSets>>

\* the handlers that write guests and legs
\* ---- updateFlightStatuses: part_000:95-118, part_001:112-145. It is run
\* by the timer (part_000:266, part_001:339), which does not wait for the
\* run before, and in part_001 by POST /api/update-flight-status (317-325):
\* two runs can be under way at once, one per slot.

PassSlots == {"pass1", "pass2"}

\* part_001:116,122: DATE(fl.eta) = today, a day being two ticks of the clock
DateOf(t) == t \div 2

\* part_000:98-102, part_001:118-123: the legs of the SELECT
EligibleLegs ==
  {l \in DOMAIN flight_legs :
     /\ flight_legs[l].status \notin Terminal
     /\ impl = "part_001" => DateOf(flight_legs[l].eta) = DateOf(now)}

\* part_000:96-102, part_001:114-123: connect and SELECT; there is no ORDER
\* BY, the rows come in any order
PassSelect(p) ==
  /\ impl \in {"part_000", "part_001"}
  /\ Free(p)
  /\ \E ids \in Perms(EligibleLegs) :
       req' = [req EXCEPT ![p] =
                 [pc |-> "loop", i |-> 1, flightStatus |-> Unavailable,
                  rows |-> [k \in DOMAIN ids |->
                              [id |-> ids[k],
                               flight_number |->
                                 flight_legs[ids[k]].flight_number,
                               eta |-> flight_legs[ids[k]].eta]]]]
  /\ checkedOut' = checkedOut + 1
  /\ UNCHANGED <<envVars, now, dbVars, lookup, legSets>>

\* part_000:104-108, part_001:127-131: fetchFlightStatus for the next leg;
\* in part_000 the call has no timeout, so a provider that does not answer
\* leaves the pass at this step
PassFetch(p) ==
  /\ req[p].pc = "loop"
  /\ req[p].i <= Len(req[p].rows)
  /\ \E flightStatus \in
          IF impl = "part_000"
          THEN {fetchFlightStatus000(resp) :
                  resp \in {a \in ProviderAnswers(apiKey) :
                              a.kind # "timeout"}}
          ELSE {fetchFlightStatus001(apiKey, resp) :
                  resp \in ProviderAnswers(apiKey)} :
       req' = [req EXCEPT ![p] =
                 IF flightStatus = Unavailable
                 THEN [@ EXCEPT !.i = @ + 1]
                 ELSE [@ EXCEPT !.pc = "writeStatus",
                                !.flightStatus = flightStatus]]
  /\ UNCHANGED <<envVars, now, dbVars, checkedOut, lookup, legSets>>

\* part_000:69-75: axios.get without a timeout. When the provider never
\* answers, the await of part_000:106 never resumes: the pass stays here
PassWait(p) ==
  /\ impl = "part_000"
  /\ req[p].pc = "loop"
  /\ req[p].i <= Len(req[p].rows)
  /\ \E resp \in ProviderAnswers(apiKey) :
       /\ resp.kind = "timeout"
       /\ req' = [req EXCEPT ![p].pc = "waiting"]
  /\ UNCHANGED <<envVars, now, dbVars, checkedOut, lookup, legSets>>

\* the leg row is deleted by a PUT transaction that has not ended
LegRowLocked(l) ==
  /\ req["put"].pc \in {"insertLeg", "commit", "rollback"}
  /\ l \in req["put"].del

\* part_000:109-112, part_001:132-136: UPDATE flight_legs SET status = $1
\* WHERE id = $2. A query that fails ends the pass: part_000:115-117 releases
\* and the rejection goes to the timer, part_001:140-144 logs and releases.
PassUpdate(p) ==
  /\ req[p].pc = "writeStatus"
  /\ LET leg == req[p].rows[req[p].i] IN
     /\ ~LegRowLocked(leg.id)
     /\ \E ok \in BOOLEAN :
          IF ok
          THEN /\ flight_legs' =
                    IF leg.id \in DOMAIN flight_legs
                    THEN [flight_legs EXCEPT
                            ![leg.id].status = req[p].flightStatus]
                    ELSE flight_legs
               /\ req' = [req EXCEPT ![p].pc = "loop", ![p].i = @ + 1,
                                     ![p].flightStatus = Unavailable]
               /\ UNCHANGED checkedOut
          ELSE /\ req' = [req EXCEPT ![p] = [pc |-> "done", failed |-> TRUE]]
               /\ checkedOut' = checkedOut - 1
               /\ UNCHANGED flight_legs
  /\ UNCHANGED <<envVars, now, guests, cars, car_passengers, serial, lookup,
                 legSets>>

\* part_000:114-117, part_001:138-144: the loop is over, release
PassEnd(p) ==
  /\ req[p].pc = "loop"
  /\ req[p].i > Len(req[p].rows)
  /\ req' = [req EXCEPT ![p] = [pc |-> "done", failed |-> FALSE]]
  /\ checkedOut' = checkedOut - 1
  /\ UNCHANGED <<envVars, now, dbVars, lookup, legSets>>

InitPass ==
  /\ impl \in {"part_000", "part_001"}
  /\ apiKey \in BOOLEAN
  /\ InitStore

NextPass ==
  \/ PostBegin
  \/ PostInsertGuest
  \/ PostInsertLeg
  \/ PostCommit
  \/ PostRollback
  \/ \E p \in PassSlots : PassSelect(p)
  \/ \E p \in PassSlots : PassFetch(p)
  \/ \E p \in PassSlots : PassWait(p)
  \/ \E p \in PassSlots : PassUpdate(p)
  \/ \E p \in PassSlots : PassEnd(p)
  \/ Tick

SpecPass == InitPass /\ [][NextPass]_vars

NextWrites ==
  \/ PostBegin
  \/ PostInsertGuest
  \/ PostInsertLeg
  \/ PostCommit
  \/ PostRollback
  \/ PutBegin
  \/ PutUpdateGuest
  \/ PutDeleteLegs
  \/ PutInsertLeg
  \/ PutCommit
  \/ PutRollback
  \/ DeleteGuest

SpecWrites == InitLegs /\ [][NextWrites]_vars

NextLegs ==
  \/ PostBegin
  \/ PostInsertGuest
  \/ PostInsertLeg
  \/ PostCommit
  \/ PostRollback
  \/ PutBegin
  \/ PutUpdateGuest
  \/ PutDeleteLegs
  \/ PutInsertLeg
  \/ PutCommit
  \/ PutRollback
  \/ DeleteGuest
  \/ ListSelectGuests
  \/ ListSelectLegs
  \/ ListRespond

SpecLegs == InitLegs /\ [][NextLegs]_vars

\* ================================================================ server2
\* src/server.js:199-640: guests are flat rows, cars is a table of its own
\* whose passengers column is an INTEGER[] without a foreign key. Every
\* handler is one autocommit statement on the pool.

MaxPickupGuests == 2
MaxCars == 1

GuestIds == 1..MaxPickupGuests
CarIds == 1..MaxCars

\* the request bodies of POST/PUT /api/guests (server.js:346, 382);
\* status may be missing, carAssigned may be missing (NoCar) or name a car
GuestBodies ==
  [name : Names, flight : {"F1"}, airline : {"AA"}, origin : Origins,
   eta : {1}, status : {NULL, Landed}, carAssigned : {NoCar} \cup CarIds]

\* the passengers arrays a car body can carry, as the set of their elements
PassengerLists == SUBSET GuestIds

\* server.js:350-355: status || 'On Time', carAssigned || null
InsertedGuest(body) ==
  [name |-> body.name, flight |-> body.flight, airline |-> body.airline,
   origin |-> body.origin, eta |-> body.eta,
   status |-> IF body.status = NULL THEN OnTime ELSE body.status,
   car_assigned |-> body.carAssigned]

\* server.js:384-391: every column is set from the body as it is
UpdatedGuest(body) ==
  [name |-> body.name, flight |-> body.flight, airline |-> body.airline,
   origin |-> body.origin, eta |-> body.eta, status |-> body.status,
   car_assigned |-> body.carAssigned]

InitPickup ==
  /\ impl = "server2"
  /\ apiKey \in BOOLEAN
  /\ InitStore

\* server.js:344-376: POST /api/guests
S2PostGuest ==
  /\ impl = "server2"
  /\ serial.guests <= MaxPickupGuests
  /\ \E body \in GuestBodies :
       guests' = (serial.guests :> InsertedGuest(body)) @@ guests
  /\ serial' = [serial EXCEPT !.guests = @ + 1]
  /\ req' = [req EXCEPT !["post"] =
               [pc |-> "done", res |-> [code |-> 201, body |-> "guest"]]]
  /\ UNCHANGED <<envVars, now, flight_legs, cars, car_passengers, checkedOut,
                 lookup, legSets>>

\* server.js:379-415: PUT /api/guests/:id, 404 when no row was updated
S2PutGuest ==
  /\ impl = "server2"
  /\ \E id \in GuestIds, body \in GuestBodies :
       /\ guests' = IF id \in DOMAIN guests
                    THEN [guests EXCEPT ![id] = UpdatedGuest(body)]
                    ELSE guests
       /\ req' = [req EXCEPT !["put"] =
                    [pc |-> "done", guestId |-> id,
                     res |-> IF id \in DOMAIN guests
                             THEN [code |-> 200, body |-> "guest"]
                             ELSE [code |-> 404,
                                   body |-> "Guest not found"]]]
  /\ UNCHANGED <<envVars, now, flight_legs, cars, car_passengers, serial,
                 checkedOut, lookup, legSets>>

\* server.js:418-432: DELETE /api/guests/:id, 404 when no row was deleted;
\* the cars table is not touched
S2DeleteGuest ==
  /\ impl = "server2"
  /\ \E id \in GuestIds :
       /\ guests' = [g \in DOMAIN guests \ {id} |-> guests[g]]
       /\ req' = [req EXCEPT !["del"] =
                    [pc |-> "done", guestId |-> id,
                     res |-> IF id \in DOMAIN guests
                             THEN [code |-> 200, body |-> "Guest deleted"]
                             ELSE [code |-> 404,
                                   body |-> "Guest not found"]]]
  /\ UNCHANGED <<envVars, now, flight_legs, cars, car_passengers, serial,
                 checkedOut, lookup, legSets>>

\* server.js:483-510: POST /api/cars, INSERT ... ON CONFLICT (id) DO UPDATE;
\* the guests table is not touched
S2PostCar ==
  /\ impl = "server2"
  /\ \E id \in CarIds, passengers \in PassengerLists :
       cars' = (id :> [passengers |-> passengers]) @@ cars
  /\ req' = [req EXCEPT !["postCars"] =
               [pc |-> "done", res |-> [code |-> 201, body |-> "car"]]]
  /\ UNCHANGED <<envVars, now, guests, flight_legs, car_passengers, serial,
                 checkedOut, lookup, legSets>>

\* server.js:513-544: PUT /api/cars/:id, 404 when no row was updated
S2PutCar ==
  /\ impl = "server2"
  /\ \E id \in CarIds, passengers \in PassengerLists :
       /\ cars' = IF id \in DOMAIN cars
                  THEN [cars EXCEPT ![id] = [passengers |-> passengers]]
                  ELSE cars
       /\ req' = [req EXCEPT !["putCar"] =
                    [pc |-> "done",
                     res |-> IF id \in DOMAIN cars
                             THEN [code |-> 200, body |-> "car"]
                             ELSE [code |-> 404, body |-> "Car not found"]]]
  /\ UNCHANGED <<envVars, now, guests, flight_legs, car_passengers, serial,
                 checkedOut, lookup, legSets>>

\* server.js:547-561: DELETE /api/cars/:id, 404 when no row was deleted
S2DeleteCar ==
  /\ impl = "server2"
  /\ \E id \in CarIds :
       /\ cars' = [c \in DOMAIN cars \ {id} |-> cars[c]]
       /\ req' = [req EXCEPT !["delCar"] =
                    [pc |-> "done",
                     res |-> IF id \in DOMAIN cars
                             THEN [code |-> 200, body |-> "Car deleted"]
                             ELSE [code |-> 404, body |-> "Car not found"]]]
  /\ UNCHANGED <<envVars, now, guests, flight_legs, car_passengers, serial,
                 checkedOut, lookup, legSets>>

\* server.js:564-572: DELETE /api/cars
S2DeleteAllCars ==
  /\ impl = "server2"
  /\ cars' = <<>>
  /\ req' = [req EXCEPT !["delCars"] =
               [pc |-> "done",
                res |-> [code |-> 200, body |-> "All cars deleted"]]]
  /\ UNCHANGED <<envVars, now, guests, flight_legs, car_passengers, serial,
                 checkedOut, lookup, legSets>>

NextPickup ==
  \/ S2PostGuest
  \/ S2PutGuest
  \/ S2DeleteGuest
  \/ S2PostCar
  \/ S2PutCar
  \/ S2DeleteCar
  \/ S2DeleteAllCars

SpecPickup == InitPickup /\ [][NextPickup]_vars

\* ========================================================== part_001 cars
\* src/unnamed/part_001:259-315: the cars of part_001 are rows of cars and
\* car_passengers, written by POST /api/cars in one transaction and cleared
\* by DELETE /api/cars in two statements.

\* part_001:260: the bodies of POST /api/cars; passengers is given as the
\* set of its elements
CarBodies ==
  [id : CarIds, flight : {"F1"}, passengers : SUBSET (1..MaxGuests)]

CarBatches ==
  [cars : UNION {[1..n -> CarBodies] : n \in 0..MaxCars},
   guestAssignments : UNION {[G -> CarIds] : G \in SUBSET (1..MaxGuests)}]

InitCars ==
  /\ impl = "part_001"
  /\ apiKey = TRUE
  /\ InitStore

\* part_001:259-264: connect, BEGIN
CarsBegin ==
  /\ impl = "part_001"
  /\ Free("postCars")
  /\ \E batch \in CarBatches :
       req' = [req EXCEPT !["postCars"] =
                 [pc |-> "insertCar", batch |-> batch, k |-> 1,
                  newCars |-> <<>>, newPassengers |-> {},
                  assigned |-> <<>>]]
  /\ checkedOut' = checkedOut + 1
  /\ UNCHANGED <<envVars, now, dbVars, lookup, legSets>>

\* part_001:266-280: INSERT INTO cars for the k-th car (its id is the
\* client's: a primary key that is taken fails), then INSERT INTO
\* car_passengers for each of its passengers (the guest must exist)
CarsInsertCar ==
  /\ req["postCars"].pc = "insertCar"
  /\ LET r == req["postCars"] IN
     IF r.k > Len(r.batch.cars)
     THEN req' = [req EXCEPT !["postCars"].pc = "assign"]
     ELSE LET car == r.batch.cars[r.k] IN
          \E ok \in BOOLEAN :
            IF /\ ok
               /\ car.id \notin DOMAIN cars \cup DOMAIN r.newCars
               /\ car.passengers \subseteq DOMAIN guests
            THEN req' = [req EXCEPT
                           !["postCars"].k = @ + 1,
                           !["postCars"].newCars =
                             (car.id :> [flight |-> car.flight]) @@ @,
                           !["postCars"].newPassengers =
                             @ \cup {<<car.id, g>> : g \in car.passengers}]
            ELSE req' = [req EXCEPT !["postCars"].pc = "rollback"]
  /\ UNCHANGED <<envVars, now, dbVars, checkedOut, lookup, legSets>>

\* part_001:282-287: UPDATE guests SET car_assigned = $1 WHERE id = $2 for
\* each entry of guestAssignments (an id without a row updates nothing)
CarsAssign ==
  /\ req["postCars"].pc = "assign"
  /\ LET r == req["postCars"] IN
     \E ok \in BOOLEAN :
       req' = [req EXCEPT !["postCars"] =
                 IF ok
                 THEN [r EXCEPT !.pc = "commit",
                                !.assigned =
                                  [g \in DOMAIN r.batch.guestAssignments
                                           \cap DOMAIN guests |->
                                     r.batch.guestAssignments[g]]]
                 ELSE [r EXCEPT !.pc = "rollback"]]
  /\ UNCHANGED <<envVars, now, dbVars, checkedOut, lookup, legSets>>

\* part_001:289-291,296-298: COMMIT, res.json({success: true, ...}), release
CarsCommit ==
  /\ req["postCars"].pc = "commit"
  /\ LET r == req["postCars"] IN
     \E ok \in BOOLEAN :
       IF ok
       THEN /\ cars' = r.newCars @@ cars
            /\ car_passengers' = car_passengers \cup r.newPassengers
            /\ guests' = [g \in DOMAIN guests |->
                            IF g \in DOMAIN r.assigned
                            THEN [guests[g] EXCEPT
                                    !.car_assigned = r.assigned[g]]
                            ELSE guests[g]]
            /\ req' = [req EXCEPT !["postCars"] =
                         [pc |-> "done",
                          res |-> [code |-> 200, body |-> "success"]]]
            /\ checkedOut' = checkedOut - 1
       ELSE /\ req' = [req EXCEPT !["postCars"].pc = "rollback"]
            /\ UNCHANGED <<guests, cars, car_passengers, checkedOut>>
  /\ UNCHANGED <<envVars, now, flight_legs, serial, lookup, legSets>>

\* part_001:292-298: ROLLBACK, res.status(500), release; a ROLLBACK that is
\* rejected leaves the handler before the response (see PostRollback)
CarsRollback ==
  /\ req["postCars"].pc = "rollback"
  /\ \E ok \in BOOLEAN :
       req' = [req EXCEPT !["postCars"] =
                 [pc |-> "done",
                  res |-> IF ok THEN [code |-> 500, body |-> "error"]
                          ELSE [code |-> 0, body |-> "no response"]]]
  /\ checkedOut' = checkedOut - 1
  /\ UNCHANGED <<envVars, now, dbVars, lookup, legSets>>

\* part_001:301-306: connect, DELETE FROM cars (car_passengers goes with it,
\* ON DELETE CASCADE), committed on its own
DelCarsDelete ==
  /\ impl = "part_001"
  /\ Free("delCars")
  /\ \E ok \in BOOLEAN :
       IF ok
       THEN /\ cars' = <<>>
            /\ car_passengers' = {}
            /\ req' = [req EXCEPT !["delCars"] = [pc |-> "clear"]]
            /\ checkedOut' = checkedOut + 1
       ELSE /\ req' = [req EXCEPT !["delCars"] =
                         [pc |-> "done",
                          res |-> [code |-> 500, body |-> "error"]]]
            /\ UNCHANGED <<cars, car_passengers, checkedOut>>
  /\ UNCHANGED <<envVars, now, guests, flight_legs, serial, lookup, legSets>>

\* part_001:306-314: UPDATE guests SET car_assigned = NULL, the response,
\* release
DelCarsClear ==
  /\ req["delCars"].pc = "clear"
  /\ \A g \in DOMAIN guests : ~GuestRowLocked(g)
  /\ \E ok \in BOOLEAN :
       /\ guests' = IF ok
                    THEN [g \in DOMAIN guests |->
                            [guests[g] EXCEPT !.car_assigned = NoCar]]
                    ELSE guests
       /\ req' = [req EXCEPT !["delCars"] =
                    [pc |-> "done",
                     res |-> IF ok THEN [code |-> 200, body |-> "success"]
                             ELSE [code |-> 500, body |-> "error"]]]
  /\ checkedOut' = checkedOut - 1
  /\ UNCHANGED <<envVars, now, flight_legs, cars, car_passengers, serial,
                 lookup, legSets>>

NextCars ==
  \/ PostBegin
  \/ PostInsertGuest
  \/ PostInsertLeg
  \/ PostCommit
  \/ PostRollback
  \/ DeleteGuest
  \/ CarsBegin
  \/ CarsInsertCar
  \/ CarsAssign
  \/ CarsCommit
  \/ CarsRollback
  \/ DelCarsDelete
  \/ DelCarsClear

SpecCars == InitCars /\ [][NextCars]_vars

\* ======================================================= the connection pool
\* The handlers that take a client from the pool with pool.connect():
\* POST /api/guests (part_000:153-184, part_001:181-214), POST /api/cars
\* (part_001:259-299) and updateFlightStatuses (part_000:95-118,
\* part_001:112-145).

InitPool ==
  /\ impl \in {"part_000", "part_001"}
  /\ apiKey \in BOOLEAN
  /\ InitStore

NextPool ==
  \/ PostBegin
  \/ PostInsertGuest
  \/ PostInsertLeg
  \/ PostCommit
  \/ PostRollback
  \/ CarsBegin
  \/ CarsInsertCar
  \/ CarsAssign
  \/ CarsCommit
  \/ CarsRollback
  \/ PassSelect("pass1")
  \/ PassFetch("pass1")
  \/ PassWait("pass1")
  \/ PassUpdate("pass1")
  \/ PassEnd("pass1")

SpecPool == InitPool /\ [][NextPool]_vars

\* ============================================================ the listing
\* GET /api/guests of part_000:120-151 and part_001:147-179 over a store
\* that holds several guests.

MaxListGuests == 2

\* the leg lists a stored guest was created with (never empty, part_000:160)
StoredLegLists == LegLists \ {<<>>}

\* part_000:164-172: the rows of the guests 1..n, guest g created with the
\* legs created[g]; stray[g] are the legs of a PUT /api/guests/g whose
\* UPDATE ran before the guest was committed and matched no row, and whose
\* INSERTs ran after (part_000:194-208 does not look at the row count)
RECURSIVE StoredLegs(_, _, _)
StoredLegs(n, created, stray) ==
  IF n = 0 THEN <<>>
  ELSE StoredLegs(n - 1, created, stray)
       \o [k \in DOMAIN created[n] |-> LegRow(n, created[n][k], k)]
       \o [k \in DOMAIN stray[n] |-> LegRow(n, stray[n][k], k)]

InitListing ==
  /\ impl \in {"part_000", "part_001"}
  /\ apiKey = TRUE
  /\ now = 0
  /\ \E n \in 0..MaxListGuests :
     \E created \in [1..n -> StoredLegLists], stray \in [1..n -> LegLists] :
       /\ guests =
            [id \in 1..n |->
               [name |-> "Ann",
                final_destination |-> created[id][Len(created[id])].destination,
                final_eta |-> created[id][Len(created[id])].eta,
                car_assigned |-> NoCar]]
       /\ flight_legs = StoredLegs(n, created, stray)
       /\ serial = [guests |-> n + 1,
                    flight_legs |-> Len(StoredLegs(n, created, stray)) + 1]
  /\ cars = <<>>
  /\ car_passengers = {}
  /\ req = [s \in Slots |-> Idle]
  /\ checkedOut = 0
  /\ lookup = NoLookup
  /\ legSets = <<>>

NextListing ==
  \/ ListSelectGuests
  \/ ListSelectLegs
  \/ ListRespond
  \/ DeleteGuest

SpecListing == InitListing /\ [][NextListing]_vars

\* ================================================ the pass from start to end
\* updateFlightStatuses (part_000:95-118, part_001:112-145) over a store of
\* committed guests and legs, with the steps the event loop is bound to take.

InitPassLive ==
  /\ impl \in {"part_000", "part_001"}
  /\ apiKey \in BOOLEAN
  /\ now \in 0..MaxNow
  /\ \E n \in 0..MaxGuests :
     \E created \in [1..n -> StoredLegLists] :
       LET stray == [id \in 1..n |-> <<>>] IN
       /\ guests =
            [id \in 1..n |->
               [name |-> "Ann",
                final_destination |-> created[id][Len(created[id])].destination,
                final_eta |-> created[id][Len(created[id])].eta,
                car_assigned |-> NoCar]]
       /\ flight_legs = StoredLegs(n, created, stray)
       /\ serial = [guests |-> n + 1,
                    flight_legs |-> Len(StoredLegs(n, created, stray)) + 1]
  /\ cars = <<>>
  /\ car_passengers = {}
  /\ req = [s \in Slots |-> Idle]
  /\ checkedOut = 0
  /\ lookup = NoLookup
  /\ legSets = <<>>

NextPassLive ==
  \/ \E p \in PassSlots : PassSelect(p)
  \/ \E p \in PassSlots : PassFetch(p)
  \/ \E p \in PassSlots : PassWait(p)
  \/ \E p \in PassSlots : PassUpdate(p)
  \/ \E p \in PassSlots : PassEnd(p)

\* a provider answer that arrives, or the timeout of part_001:91, resumes
\* fetchFlightStatus; a query's result resumes the loop
SpecPassLive ==
  /\ InitPassLive
  /\ [][NextPassLive]_vars
  /\ \A p \in PassSlots :
       /\ WF_vars(PassFetch(p))
       /\ WF_vars(PassUpdate(p))
       /\ WF_vars(PassEnd(p))

\* ============================================================= assign-cars
\* POST /api/assign-cars: src/unnamed/part_002:148-177, src/server.js:140-170.
\* One SELECT, then one autocommit UPDATE per guest; no transaction.

MaxAssignGuests == 6

\* part_002:164-165, server.js:156-157: i += 5, slice(i, i + 5)
Capacity == 5

\* guests.flight is the flight number without the airline code
\* (part_002:54: flight_iata is airline + flight): digits, or not
AssignFlights == {"100", "20", "F1"}

\* ORDER BY flight compares the text: "100" sorts before "20", digits before
\* letters
CollationRank(flight) ==
  CASE flight = "100" -> 1
    [] flight = "20" -> 2
    [] flight = "F1" -> 3
    [] OTHER -> 4

\* for (const flight in flightGroups): a key that is the canonical text of a
\* non-negative integer is an integer index of the object
IsIntegerKey(flight) == flight \in {"100", "20"}

IntegerKey(flight) == IF flight = "100" THEN 100 ELSE 20

\* part_002:150, server.js:142: guest a may come before guest b in the rows
\* of SELECT * FROM guests ORDER BY flight, eta
RowLeq(a, b) ==
  \/ CollationRank(guests[a].flight) < CollationRank(guests[b].flight)
  \/ /\ guests[a].flight = guests[b].flight
     /\ guests[a].eta <= guests[b].eta

\* the orders the rows of S can come in: rows equal in flight and eta come
\* in any order
RECURSIVE SortedOrders(_)
SortedOrders(S) ==
  IF S = {} THEN {<<>>}
  ELSE UNION {{<<m>> \o rest : rest \in SortedOrders(S \ {m})} :
                m \in {a \in S : \A b \in S : RowLeq(a, b)}}

\* part_002:153-159, server.js:145-151: flightGroups[flight], the ids of the
\* rows with that flight in the order of the rows
FlightGroup(rows, flight) ==
  SelectSeq(rows, LAMBDA id : guests[id].flight = flight)

\* the keys of flightGroups in the order for...in walks them (part_002:162,
\* server.js:154): integer keys first, ascending by value, then the other
\* keys in the order they were added
RECURSIVE IntegerKeysAscending(_)
IntegerKeysAscending(K) ==
  IF K = {} THEN <<>>
  ELSE LET least == CHOOSE f \in K :
                      \A g \in K : IntegerKey(f) <= IntegerKey(g)
       IN <<least>> \o IntegerKeysAscending(K \ {least})

RECURSIVE KeysAsAdded(_, _)
KeysAsAdded(rows, seen) ==
  IF rows = <<>> THEN <<>>
  ELSE LET flight == guests[Head(rows)].flight IN
       IF IsIntegerKey(flight) \/ flight \in seen
       THEN KeysAsAdded(Tail(rows), seen)
       ELSE <<flight>> \o KeysAsAdded(Tail(rows), seen \cup {flight})

FlightKeys(rows) ==
  IntegerKeysAscending({guests[rows[i]].flight : i \in DOMAIN rows}
                         \cap {f \in AssignFlights : IsIntegerKey(f)})
  \o KeysAsAdded(rows, {})

\* as GroupUpdates, but carId is never advanced
RECURSIVE GroupUpdatesOneCar(_, _)
GroupUpdatesOneCar(group, carId) ==
  IF group = <<>> THEN <<>>
  ELSE LET size == IF Len(group) < Capacity THEN Len(group) ELSE Capacity
           carGuests == SubSeq(group, 1, size)
       IN [j \in DOMAIN carGuests |->
             [id |-> carGuests[j], flight |-> guests[carGuests[j]].flight,
              carId |-> carId]]
          \o GroupUpdatesOneCar(SubSeq(group, size + 1, Len(group)), carId)

\* part_002:164-170, server.js:156-162: the UPDATEs of one flight's guests,
\* a chunk of Capacity guests at a time, carId++ after each chunk
RECURSIVE GroupUpdates(_, _)
GroupUpdates(group, carId) ==
  IF group = <<>> THEN <<>>
  ELSE LET size == IF Len(group) < Capacity THEN Len(group) ELSE Capacity
           carGuests == SubSeq(group, 1, size)
       IN [j \in DOMAIN carGuests |->
             [id |-> carGuests[j], flight |-> guests[carGuests[j]].flight,
              carId |-> carId]]
          \o GroupUpdates(SubSeq(group, size + 1, Len(group)), carId + 1)

\* as AssignUpdates, but a flight's last car is left open for the next flight
RECURSIVE AssignUpdatesSharedCar(_, _, _)
AssignUpdatesSharedCar(rows, keys, carId) ==
  IF keys = <<>> THEN <<>>
  ELSE LET updates == GroupUpdates(FlightGroup(rows, Head(keys)), carId) IN
       updates
       \o AssignUpdatesSharedCar(rows, Tail(keys), updates[Len(updates)].carId)

\* part_002:161-171, server.js:153-163: the UPDATEs of the run in the order
\* they are issued; carId carries over from one flight to the next
RECURSIVE AssignUpdates(_, _, _)
AssignUpdates(rows, keys, carId) ==
  IF keys = <<>> THEN <<>>
  ELSE LET updates == GroupUpdates(FlightGroup(rows, Head(keys)), carId) IN
       updates
       \o AssignUpdates(rows, Tail(keys), updates[Len(updates)].carId + 1)

\* a guest table of n guests: the first `first` of them on one flight and
\* the others on another, the ETAs going round `spread` values with the ids
InitAssign ==
  /\ impl \in {"part_002", "server1"}
  /\ apiKey = TRUE
  /\ now = 0
  /\ \E n \in 0..MaxAssignGuests, first \in 0..MaxAssignGuests,
        spread \in {2, 3}, one \in AssignFlights, other \in AssignFlights :
       /\ first <= n
       /\ guests =
            [id \in 1..n |->
               [name |-> "Ann", flight |-> IF id <= first THEN one ELSE other,
                airline |-> "AA", origin |-> "JFK",
                eta |-> 1 + (id % spread),
                status |-> OnTime, car_assigned |-> NoCar]]
       /\ serial = [guests |-> n + 1, flight_legs |-> 1]
  /\ flight_legs = <<>>
  /\ cars = <<>>
  /\ car_passengers = {}
  /\ req = [s \in Slots |-> Idle]
  /\ checkedOut = 0
  /\ lookup = NoLookup
  /\ legSets = <<>>

\* part_002:150-159, server.js:142-151: the SELECT and the grouping; a
\* failing SELECT goes to the catch (part_002:174-176, server.js:167-169)
AssignSelect ==
  /\ impl \in {"part_002", "server1"}
  /\ Free("assign")
  /\ \E ok \in BOOLEAN :
       IF ok
       THEN \E rows \in SortedOrders(DOMAIN guests) :
              req' = [req EXCEPT !["assign"] =
                        [pc |-> "update", rows |-> rows,
                         updates |-> AssignUpdates(rows, FlightKeys(rows), 1),
                         k |-> 1,
                         before |-> [id \in DOMAIN guests |->
                                       guests[id].car_assigned]]]
       ELSE req' = [req EXCEPT !["assign"] =
                      [pc |-> "done", res |-> [code |-> 500]]]
  /\ UNCHANGED <<envVars, now, dbVars, checkedOut, lookup, legSets>>

\* part_002:167-169, server.js:159-161: one UPDATE guests SET car_assigned,
\* committed on its own; a failing one goes to the catch
AssignUpdate ==
  /\ impl \in {"part_002", "server1"}
  /\ req["assign"].pc = "update"
  /\ req["assign"].k <= Len(req["assign"].updates)
  /\ LET update == req["assign"].updates[req["assign"].k] IN
     \E ok \in BOOLEAN :
       IF ok
       THEN /\ guests' = IF update.id \in DOMAIN guests
                         THEN [guests EXCEPT
                                 ![update.id].car_assigned = update.carId]
                         ELSE guests
            /\ req' = [req EXCEPT !["assign"].k = @ + 1]
       ELSE /\ guests' = guests
            /\ req' = [req EXCEPT !["assign"] =
                         [pc |-> "done", res |-> [code |-> 500]]]
  /\ UNCHANGED <<envVars, now, flight_legs, cars, car_passengers, serial,
                 checkedOut, lookup, legSets>>

\* part_002:173, server.js:166: res.json({ message: 'Cars assigned
\* successfully' })
AssignRespond ==
  /\ impl \in {"part_002", "server1"}
  /\ req["assign"].pc = "update"
  /\ req["assign"].k > Len(req["assign"].updates)
  /\ req' = [req EXCEPT !["assign"] =
               [pc |-> "done", res |-> [code |-> 200]]]
  /\ UNCHANGED <<envVars, now, dbVars, checkedOut, lookup, legSets>>

NextAssign ==
  \/ AssignSelect
  \/ AssignUpdate
  \/ AssignRespond

SpecAssign == InitAssign /\ [][NextAssign]_vars

\* ======================================================= one status refresh
\* What one refresh makes of one record, as a function of the record, the
\* provider's answer and the clock; lookup keeps the inputs and the results
\* of applying the refresh once and twice.

\* part_000:108-113, part_001:131-137: if (flightStatus) UPDATE ... SET status
PassWrite(current, flightStatus) ==
  IF flightStatus = Unavailable THEN current ELSE flightStatus

\* part_000:98-113: a leg that is Landed or Cancelled is not selected
Reconcile000(current, resp) ==
  IF current \in Terminal THEN current
  ELSE PassWrite(current, fetchFlightStatus000(resp))

\* part_001:116-137: the same, for the legs whose eta is today
Reconcile001(key, current, resp, eta, t) ==
  IF current \in Terminal \/ DateOf(eta) # DateOf(t) THEN current
  ELSE PassWrite(current, fetchFlightStatus001(key, resp))

\* part_002:49-97: the status of the guest after the listing's refresh
Reconcile002(current, resp, eta, t) ==
  LET newStatus == Refresh002(resp, [status |-> current, eta |-> eta], t)
  IN IF newStatus = NoWrite THEN current ELSE newStatus

\* server.js:50-85
Reconcile1(current, resp) ==
  IF Refresh1(resp) = NoWrite THEN current ELSE Refresh1(resp)

\* the refresh of the running implementation
Reconcile(current, resp, eta, t) ==
  CASE impl = "part_000" -> Reconcile000(current, resp)
    [] impl = "part_001" -> Reconcile001(apiKey, current, resp, eta, t)
    [] impl = "part_002" -> Reconcile002(current, resp, eta, t)
    [] OTHER -> Reconcile1(current, resp)

InitReconcile ==
  /\ impl \in {"part_000", "part_001", "part_002", "server1"}
  /\ apiKey \in BOOLEAN
  /\ InitStore

\* one record (its status and eta) is refreshed with the answer resp at the
\* time now, and refreshed again with the same answer at the same time; a
\* call that is never answered is waited for where no timeout is set
ApplyReconcile ==
  /\ \E current \in Statuses, eta \in Etas,
        resp \in ProviderAnswers(apiKey) :
       /\ impl # "part_001" => resp.kind # "timeout"
       /\ LET once == Reconcile(current, resp, eta, now) IN
          lookup' = [by |-> "reconcile", resp |-> resp, current |-> current,
                     eta |-> eta, t |-> now, once |-> once,
                     twice |-> Reconcile(once, resp, eta, now)]
  /\ UNCHANGED <<envVars, now, dbVars, req, checkedOut, legSets>>

NextReconcile == ApplyReconcile \/ Tick

SpecReconcile == InitReconcile /\ [][NextReconcile]_vars

\* ================================================================== claims

\* the slots whose "writeStatus" step is a status refresh writing to the store
RefreshSlots == {"list", "pass1", "pass2"}

FlatImpls == {"part_002", "server1", "server2"}

\* C1: terminal statuses are sticky. No write of a status refresh (the
\* reconciliation pass, the refresh done while listing guests) changes a
\* recorded status that is Landed or Cancelled.
C1_TerminalSticky ==
  [][(\E s \in RefreshSlots : req[s].pc = "writeStatus" /\ req'[s] # req[s])
     => /\ impl \in FlatImpls =>
             \A id \in DOMAIN guests \cap DOMAIN guests' :
               guests[id].status \in Terminal
                 => guests'[id].status = guests[id].status
        /\ \A l \in DOMAIN flight_legs \cap DOMAIN flight_legs' :
             flight_legs[l].status \in Terminal
               => flight_legs'[l].status = flight_legs[l].status]_vars

\* C2: the fallback rule. When the listing's refresh is done with a guest
\* whose lookup gave no usable result (the call was rejected or the result
\* set was empty) and whose recorded status is 'On Time', the stored status
\* is 'Landed' if the scheduled ETA is earlier than now and 'On Time' if not.
C2_FallbackRule ==
  [][(/\ req["list"].pc \in {"loop", "writeStatus"}
      /\ req'["list"].pc = "loop"
      /\ req'["list"].i = req["list"].i + 1
      /\ req'["list"].answer \in {"network", "empty"}
      /\ impl \in FlatImpls)
     => LET guest == req["list"].guests[req["list"].i] IN
        (/\ guest.id \in DOMAIN guests
         /\ guest.status = OnTime
         /\ guests[guest.id].status = OnTime
         /\ guests[guest.id].eta = guest.eta)
        => guests'[guest.id].status =
             IF guest.eta < now THEN Landed ELSE OnTime]_vars

\* the list of one guest as a listing has read it so far
ListedGuests ==
  IF impl \notin {"part_000", "part_001"} THEN {}
  ELSE IF req["list"].pc = "legs"
       THEN {req["list"].guests[i] : i \in 1..(req["list"].i - 1)}
  ELSE IF req["list"].pc = "done"
       THEN {req["list"].res.body[i] : i \in DOMAIN req["list"].res.body}
  ELSE {}

\* C3: a guest listing that runs beside a leg replacement (PUT
\* /api/guests/:id) of the same guest returns for that guest the complete
\* old leg set or the complete new leg set, each of them a set one create or
\* replace request committed, never an empty or partial leg list (an empty
\* one only when the guest's row has been deleted since it was read).
C3_ListingSeesWholeLegSets ==
  \A g \in ListedGuests :
    (req["put"].pc # "idle" /\ req["put"].guestId = g.id)
    => LET rows == {g.legs[i].row : i \in DOMAIN g.legs} IN
       IF rows = {} THEN g.id \notin DOMAIN guests
       ELSE g.id \in DOMAIN legSets /\ rows \in legSets[g.id]

\* C4: leg replacement is atomic under failure. When PUT /api/guests/:id
\* ends in its catch block after the old legs were deleted, the store is
\* left as it was and the caller gets the 500 answer.
C4_ReplaceAtomicOnFailure ==
  [][(/\ req["put"].pc = "rollback"
      /\ req'["put"].pc = "done"
      /\ req["put"].del # {})
     => /\ guests' = guests
        /\ flight_legs' = flight_legs
        /\ req'["put"].res.code = 500]_vars

\* C5: in every committed store state each guest has at least one flight leg.
C5_GuestHasLegs ==
  impl \in {"part_000", "part_001"} =>
    \A id \in DOMAIN guests : LegsOf(id) # {}

\* a guest with legs is committed, after a request with an empty leg list
\* and one whose inserts failed part-way were turned down
C5_Witness ==
  /\ \E id \in DOMAIN guests : LegsOf(id) # {}
  /\ req["post"].pc = "done" /\ req["post"].res.code = 500
  /\ req["put"].pc = "done" /\ req["put"].res.code = 500

\* guest g's car reference and the cars' passenger collections agree
CarAgreement ==
  \A g \in DOMAIN guests :
    \A c \in 1..(MaxCars + 1) :
      (guests[g].car_assigned = c)
      <=> IF impl = "server2"
          THEN c \in DOMAIN cars /\ g \in cars[c].passengers
          ELSE <<c, g>> \in car_passengers

\* C6: car-assignment agreement. Guest g's car reference is car c if and
\* only if g is in c's passenger collection, and this is kept by every car
\* create, car update, clearing of the cars and every guest deletion.
C6_CarAgreementKept ==
  [][(/\ CarAgreement
      /\ \/ cars' # cars
         \/ car_passengers' # car_passengers
         \/ DOMAIN guests' # DOMAIN guests /\ DOMAIN guests' \subseteq DOMAIN guests)
     => CarAgreement']_vars

\* C7: after a guest is deleted no flight leg of that guest exists and the
\* guest's id is in no car's passenger collection.
C7_DeleteClearsGuest ==
  [][\A id \in DOMAIN guests \ DOMAIN guests' :
       /\ \A l \in DOMAIN flight_legs' : flight_legs'[l].guest_id # id
       /\ \A c \in DOMAIN cars' : <<c, id>> \notin car_passengers'
       /\ impl = "server2" =>
            \A c \in DOMAIN cars' : id \notin cars'[c].passengers]_vars

\* C8: an update or delete naming a guest id that is not in the store ends
\* with a NotFound answer (404), which is neither the success answer nor the
\* generic failure answer (500), and leaves the store unchanged. A delete
\* that the database itself turned down is left aside.
C8_NotFound ==
  [][/\ (/\ req'["del"] # req["del"]
         /\ req'["del"].pc = "done"
         /\ req'["del"].guestId \notin DOMAIN guests
         /\ req'["del"].res.code # 500)
        => (req'["del"].res.code = 404 /\ guests' = guests)
     /\ (/\ req["put"].pc \in {"commit", "rollback"}
         /\ req'["put"].pc = "done"
         /\ ~req["put"].matched
         /\ req["put"].guestId \notin DOMAIN guests)
        => (req'["put"].res.code = 404 /\ guests' = guests
            /\ flight_legs' = flight_legs)]_vars

\* C9: the resolver maps cancelled to Cancelled, landed to Landed, active to
\* On Time, scheduled to Delayed when the departure delay is greater than 0
\* and to On Time otherwise, and every other vendor status to On Time.
C9_ResolverMapping ==
  (/\ lookup.by # "none"
   /\ lookup.resp.kind = "data"
   /\ lookup.resp.flight_status = ToLowerCase(lookup.resp.flight_status))
  => lookup.result =
       (CASE lookup.resp.flight_status = "cancelled" -> Cancelled
          [] lookup.resp.flight_status = "landed" -> Landed
          [] lookup.resp.flight_status = "active" -> OnTime
          [] lookup.resp.flight_status = "scheduled" ->
               IF \E m \in lookup.resp.delay : m > 0 THEN Delayed ELSE OnTime
          [] OTHER -> OnTime)

\* C10: for every failed provider lookup (rejected call, timeout, missing
\* credential, empty result set) the resolver returns Unavailable, never a
\* concrete status.
C10_FailureIsUnavailable ==
  (/\ lookup.by # "none"
   /\ lookup.code # 400
   /\ (~apiKey \/ lookup.resp.kind \in {"network", "timeout", "empty"}))
  => lookup.result = Unavailable

\* C11: when the provider returns a concrete status for a record that is not
\* Landed or Cancelled, the status the refresh stores is the one mapped from
\* the answer alone: the same whatever the previous status of the record
\* and whether its ETA is in the past or in the future.
C11_ProviderIsAuthoritative ==
  (/\ lookup.by = "reconcile"
   /\ lookup.resp.kind = "data"
   /\ lookup.current \notin Terminal
   /\ impl = "part_001" => DateOf(lookup.eta) = DateOf(lookup.t))
  => \A current \in Statuses \ Terminal, eta \in Etas, t \in 0..MaxNow :
       (impl = "part_001" => DateOf(eta) = DateOf(t))
       => Reconcile(current, lookup.resp, eta, t) = lookup.once

\* C18: reconciliation is idempotent. Refreshing a record twice with the
\* same provider result, the same ETA and the same current time stores the
\* status that refreshing it once stores.
C18_ReconcileIdempotent ==
  lookup.by = "reconcile" => lookup.twice = lookup.once

\* a refresh that changed the record's status by the fallback for a failed
\* lookup, and one that changed it to the provider's status
C18_Witness ==
  /\ lookup.by = "reconcile"
  /\ lookup.once # lookup.current
  /\ lookup.twice = lookup.once
  /\ lookup.resp.kind = "network"


\* the car number each guest gets from a run's UPDATEs
CarNumbers(updates) ==
  {<<updates[j].id, updates[j].carId>> : j \in DOMAIN updates}

\* C12: car assignment is deterministic. A run has read the guests; any
\* other run over the same guest table, whatever order its query returns
\* the rows in, gives every guest the same car number as this one.
C12_AssignDeterministic ==
  req["assign"].pc = "update" =>
    \A rows \in SortedOrders(DOMAIN guests) :
      CarNumbers(AssignUpdates(rows, FlightKeys(rows), 1))
        = CarNumbers(req["assign"].updates)


\* the run has answered 200: every UPDATE of it was made
AssignCompleted ==
  /\ req["assign"].pc = "done"
  /\ req["assign"].res.code = 200

GuestsInCar(carId) == {id \in DOMAIN guests : guests[id].car_assigned = carId}

GuestsOnFlight(flight) == {id \in DOMAIN guests : guests[id].flight = flight}

CarsOfFlight(flight) ==
  {guests[id].car_assigned : id \in GuestsOnFlight(flight)}

\* C13: after a completed assignment run no car number is held by more
\* guests than the capacity.
C13_CapacityKept ==
  AssignCompleted =>
    \A id \in DOMAIN guests :
      Cardinality(GuestsInCar(guests[id].car_assigned)) <= Capacity

\* a completed run over more guests of one flight than fit in one car
C13_Witness ==
  /\ AssignCompleted
  /\ \E id \in DOMAIN guests :
       /\ Cardinality(GuestsOnFlight(guests[id].flight)) > Capacity
       /\ Cardinality(GuestsInCar(guests[id].car_assigned)) = Capacity

\* C14: after a completed run all guests sharing a car number have the same
\* flight, and a flight with n guests occupies exactly ceil(n / capacity)
\* cars, each of them full except possibly the one with the highest number.
C14_CarsPerFlight ==
  AssignCompleted =>
    /\ \A a \in DOMAIN guests, b \in DOMAIN guests :
         guests[a].car_assigned = guests[b].car_assigned
           => guests[a].flight = guests[b].flight
    /\ \A id \in DOMAIN guests :
         LET onFlight == GuestsOnFlight(guests[id].flight)
             n == Cardinality(onFlight)
             carsOfFlight == CarsOfFlight(guests[id].flight)
             inCar == Cardinality(GuestsInCar(guests[id].car_assigned))
         IN /\ Cardinality(carsOfFlight) = (n + Capacity - 1) \div Capacity
            /\ \/ inCar = Capacity
               \/ /\ \A carId \in carsOfFlight :
                       carId <= guests[id].car_assigned
                  /\ inCar = n - Capacity * (Cardinality(carsOfFlight) - 1)

\* a completed run over two flights, one of them with a car that is not full
C14_Witness ==
  /\ AssignCompleted
  /\ \E a \in DOMAIN guests, b \in DOMAIN guests :
       /\ guests[a].flight # guests[b].flight
       /\ Cardinality(GuestsOnFlight(guests[a].flight)) = Capacity
       /\ guests[a].car_assigned # guests[b].car_assigned

\* a completed run over one flight that takes two cars, the last not full
C14_WitnessTwoCars ==
  /\ AssignCompleted
  /\ \E a \in DOMAIN guests, b \in DOMAIN guests :
       /\ guests[a].flight = guests[b].flight
       /\ guests[a].car_assigned < guests[b].car_assigned
       /\ Cardinality(GuestsInCar(guests[b].car_assigned)) < Capacity

\* C15: car-batch writes are all-or-nothing. An assignment run that ends in
\* an error leaves every guest's car number as it was before the request.
C15_AssignAllOrNothing ==
  [][(/\ req["assign"].pc = "update"
      /\ req'["assign"].pc = "done"
      /\ req'["assign"].res.code = 500)
     => \A id \in DOMAIN guests' :
          guests'[id].car_assigned = req["assign"].before[id]]_vars

\* the car number the run gives to the guest of the j-th row of its query
CarOfRow(j) ==
  LET u == CHOOSE k \in DOMAIN req["assign"].updates :
             req["assign"].updates[k].id = req["assign"].rows[j]
  IN req["assign"].updates[u].carId

\* C20: the car numbers of one run are 1..k without a gap, and walking the
\* rows in the order of the guest query the car number starts at 1 and
\* stays or goes up by one from each row to the next.
C20_CarNumbersFollowQuery ==
  (req["assign"].pc = "update" /\ req["assign"].rows # <<>>) =>
    /\ CarOfRow(1) = 1
    /\ \A j \in 1..(Len(req["assign"].rows) - 1) :
         CarOfRow(j + 1) \in {CarOfRow(j), CarOfRow(j) + 1}


\* C16: the listing is done with guest i, whose provider lookup failed (the
\* call was rejected or the result set was empty): the status the listing
\* returns for the guest is the one it read from the store at the start of
\* the request.
C16_FailedLookupKeepsStatus ==
  [][(/\ impl \in FlatImpls
      /\ req["list"].pc \in {"loop", "writeStatus"}
      /\ req'["list"].pc = "loop"
      /\ req'["list"].i = req["list"].i + 1
      /\ req'["list"].answer \in {"network", "empty"})
     => req'["list"].guests[req["list"].i].status
          = req["list"].guests[req["list"].i].status]_vars


\* C17: the listing returns the guests newest-created first, and the legs it
\* reads for a guest are in ascending order of their order index, legs equal
\* in order index in ascending order of ETA.
C17_ListingOrder ==
  [][(impl \in {"part_000", "part_001"} /\ req'["list"].pc = "legs")
     => /\ \A a, b \in DOMAIN req'["list"].guests :
             a < b => req'["list"].guests[a].id > req'["list"].guests[b].id
        /\ (req["list"].pc = "legs" /\ req'["list"].i = req["list"].i + 1)
           => LET legs == req'["list"].guests[req["list"].i].legs IN
              \A a, b \in DOMAIN legs :
                a < b =>
                  LET first == flight_legs[legs[a].row]
                      second == flight_legs[legs[b].row]
                  IN \/ first.leg_order < second.leg_order
                     \/ /\ first.leg_order = second.leg_order
                        /\ first.eta <= second.eta]_vars

\* a listing has answered with two guests, one of them with a leg of a
\* later ETA listed before a leg of an earlier ETA
C17_Witness ==
  /\ impl \in {"part_000", "part_001"}
  /\ req["list"].pc = "done"
  /\ Len(req["list"].res.body) = 2
  /\ \E g \in DOMAIN req["list"].res.body :
       LET legs == req["list"].res.body[g].legs IN
       \E a, b \in DOMAIN legs : a < b /\ legs[a].eta > legs[b].eta


\* the legs of a guest with the highest order index
LastLegs(guestId) ==
  {l \in LegsOf(guestId) :
     \A k \in LegsOf(guestId) :
       flight_legs[k].leg_order <= flight_legs[l].leg_order}

\* C19: in every committed state of the store each guest's final destination
\* and final ETA are the destination and ETA of its leg with the highest
\* order index.
C19_FinalFromLastLeg ==
  impl \in {"part_000", "part_001"} =>
    \A id \in DOMAIN guests :
      \A l \in LastLegs(id) :
        /\ guests[id].final_destination = flight_legs[l].destination
        /\ guests[id].final_eta = flight_legs[l].eta


\* C21: every reconciliation pass that has begun eventually finishes, and by
\* then has given its connection back, whatever the provider does.
C21_PassFinishes ==
  \A p \in PassSlots :
    (req[p].pc \in {"loop", "writeStatus", "waiting"})
      ~> (req[p].pc = "done")


\* C22: when the listing's refresh writes a status to a guest, the guest
\* holds the flight the status was looked up for.
C22_StatusIsOfStoredFlight ==
  [][(/\ impl \in FlatImpls
      /\ req["list"].pc = "writeStatus"
      /\ req'["list"].pc = "loop"
      /\ req["list"].guests[req["list"].i].id \in DOMAIN guests)
     => LET guest == req["list"].guests[req["list"].i] IN
        guests[guest.id].flight = guest.flight]_vars


\* the requests and passes that are under way, each holding one client
InFlight == {s \in Slots : ~Free(s)}

\* C23: every handler and pass that takes a client from the pool gives it
\* back exactly once on every path: the clients checked out are those of the
\* requests under way, and none when every request has finished.
C23_ClientsReleased ==
  impl \in {"part_000", "part_001"} => checkedOut = Cardinality(InFlight)

\* nothing is under way after a guest creation whose ROLLBACK failed, a car
\* batch that ended in an error and a pass that a failed query ended
C23_Witness ==
  /\ InFlight = {}
  /\ checkedOut = 0
  /\ req["post"].pc = "done" /\ req["post"].res.code = 0
  /\ req["postCars"].pc = "done" /\ req["postCars"].res.code # 200
  /\ req["pass1"].pc = "done" /\ req["pass1"].failed

=============================================================================
